---- MODULE Spec2Model ----
(***************************************************************************)
(* Model of the formula tokenizer of zum (src/src/Tokenizer.cpp).          *)
(*                                                                         *)
(* A Tokenizer owns the input stream_, the cursor pos_ and the text value_ *)
(* of the token under construction.  next() is the only operation.  The    *)
(* functions of Tokenizer.cpp are operators over a record holding the      *)
(* three members, written statement by statement; the action Next applies  *)
(* next() to the members.  Characters are one-character strings, a Str is  *)
(* a sequence of characters and pos_ is a 0-based index as in the source.  *)
(* The inline helpers of Tokenizer.h (eof, current, peak, step and the     *)
(* character classes) are not part of Tokenizer.cpp; they follow the       *)
(* description of the lexer: a read at or beyond the end of the stream     *)
(* yields NUL, a character of no class, and a call of current() with the   *)
(* cursor at the end of the stream is recorded in pastEnd.                 *)
(***************************************************************************)
EXTENDS Integers, Sequences, FiniteSets, TLC

\* ---------------------------------------------------------------- bounds
MaxLen == 4
MaxCalls == 6

\* Characters the enumerated inputs are built from: one or two of each class
\* the dispatch of next() distinguishes.
Alphabet == {" ", "3", "-", "(", ")", "+", "a", "A", ".", "@"}

\* The worked example "3 + 4".
Sample == <<"3", " ", "+", " ", "4">>

Inputs == UNION {[1..n -> Alphabet] : n \in 0..MaxLen} \cup {Sample}

\* ------------------------------------------------------ character classes
NUL == ""

Digits == {"0", "1", "2", "3", "4", "5", "6", "7", "8", "9"}

UpperAlpha == {"A", "B", "C", "D", "E", "F", "G", "H", "I", "J", "K", "L", "M", "N", "O", "P", "Q", "R", "S", "T", "U", "V", "W", "X", "Y", "Z"}

LowerAlpha == {"a", "b", "c", "d", "e", "f", "g", "h", "i", "j", "k", "l", "m", "n", "o", "p", "q", "r", "s", "t", "u", "v", "w", "x", "y", "z"}

Whitespaces == {" ", "\t", "\n", "\r"}

Operators == {"+", "-", "*", "/", "=", "<", ">", "^"}

isDigit(c) == c \in Digits

isUpperAlpha(c) == c \in UpperAlpha

isAlpha(c) == c \in UpperAlpha \cup LowerAlpha

isWhitespace(c) == c \in Whitespaces

isOperator(c) == c \in Operators

\* ------------------------------------------------------- string literals
UNKNOWN_CHARACTER ==
  <<"P", "a", "r", "s", "e", " ", "e", "r", "r", "o", "r", " ", "-", " ",
  "u", "n", "k", "n", "o", "w", "n", " ", "c", "h", "a", "r", "a", "c",
  "t", "e", "r", ":", " ">>

EXPECTED_DIGIT ==
  <<"P", "a", "r", "s", "e", " ", "e", "r", "r", "o", "r", " ", "-", " ",
  "e", "x", "p", "e", "c", "t", "e", "d", " ", "d", "i", "g", "i", "t",
  " ", "b", "u", "t", " ", "g", "o", "t", " ">>

IN_NUMBER ==
  <<" ", "i", "n", " ", "n", "u", "m", "b", "e", "r", " ">>

\* ------------------------------------------------- accessors (Tokenizer.h)
\* The character of str at 0-based index i, NUL outside the string.
At(str, i) == IF i >= 0 /\ i < Len(str) THEN str[i + 1] ELSE NUL

eof(t) == t.pos_ >= Len(t.stream_)

current(t) == At(t.stream_, t.pos_)

peak(t) == At(t.stream_, t.pos_ + 1)

step(t) == [t EXCEPT !.pos_ = @ + 1]

\* value_.append(c)
append(t, c) == [t EXCEPT !.value_ = Append(@, c)]

\* value_.append(str)
appendStr(t, str) == [t EXCEPT !.value_ = @ \o str]

\* Tokenizer::Tokenizer
Tokenizer(stream) ==
  [stream_ |-> stream, pos_ |-> 0, value_ |-> <<>>, pastEnd |-> FALSE]

\* --------------------------------------------------------- Tokenizer.cpp
\* while (!eof() && isWhitespace(current())) step();
RECURSIVE eatWhitespace(_)
eatWhitespace(t) ==
  IF ~eof(t) /\ isWhitespace(current(t)) THEN eatWhitespace(step(t)) ELSE t

\* while (!eof() && isDigit(current())) { value_.append(current()); step(); }
RECURSIVE digitRun(_)
digitRun(t) ==
  IF ~eof(t) /\ isDigit(current(t))
  THEN digitRun(step(append(t, current(t))))
  ELSE t

\* Tokenizer::parseNumber.  The test of line 81 calls current() without a
\* test of eof().  In the malformed branch the statement "Token::Error;"
\* returns nothing, so control reaches the final return of Token::Number.
parseNumber(t) ==
  LET t1 == digitRun(step(append(t, current(t))))
      t2 == [t1 EXCEPT !.pastEnd = @ \/ eof(t1)]
      number == t2.value_
      t3 == IF current(t2) = "."
            THEN IF ~isDigit(peak(t2))
                 THEN appendStr(appendStr(append(
                        [t2 EXCEPT !.value_ = EXPECTED_DIGIT], peak(t2)),
                        IN_NUMBER), number)
                 ELSE digitRun(step(append(t2, current(t2))))
            ELSE t2
  IN  [tok |-> "Number", lx |-> t3]

\* The loop of parseIdentifier: it runs to the end of the stream, appends
\* the current character when it is a letter and steps in every iteration.
RECURSIVE identifierLoop(_)
identifierLoop(t) ==
  IF ~eof(t)
  THEN identifierLoop(step(IF isAlpha(current(t))
                           THEN append(t, current(t))
                           ELSE t))
  ELSE t

\* Tokenizer::parseIdentifier
parseIdentifier(t) ==
  LET type == IF isUpperAlpha(current(t)) THEN "Cell" ELSE "Identifier"
  IN  [tok |-> type, lx |-> identifierLoop(step(append(t, current(t))))]

\* A faulty operator branch that leaves the cursor on the operator.
operatorToken_noStep(t) ==
  [tok |-> "Operator", lx |-> append(t, current(t))]

\* The operator branch of next(): value_.append(current()); step();
\* return Token::Operator.
operatorToken(t) ==
  [tok |-> "Operator", lx |-> step(append(t, current(t)))]

\* Tokenizer::next from the eof() test on (lines 15-61).
dispatch(t) ==
  IF eof(t) THEN [tok |-> "EndOfFile", lx |-> t]
  ELSE IF isDigit(current(t)) THEN parseNumber(t)
  ELSE IF current(t) = "-"
       THEN IF isDigit(peak(t))
            THEN parseNumber(append(t, "-"))
            ELSE parseIdentifier(t)
  ELSE IF current(t) = "(" THEN [tok |-> "LeftParenthesis", lx |-> step(t)]
  ELSE IF current(t) = ")" THEN [tok |-> "RightParenthesis", lx |-> step(t)]
  ELSE IF isOperator(current(t))
          /\ (isWhitespace(peak(t)) \/ isAlpha(peak(t)) \/ isDigit(peak(t)))
       THEN operatorToken(t)
  ELSE IF isAlpha(current(t)) THEN parseIdentifier(t)
  ELSE [tok |-> "Error",
        lx |-> append(appendStr(t, UNKNOWN_CHARACTER), current(t))]

\* A faulty next() that does not clear value_ on entry.
next_keepValue(t) ==
  dispatch(eatWhitespace([t EXCEPT !.pastEnd = FALSE]))

\* Tokenizer::next: value_.clear(); eatWhitespace(); then the dispatch.
next(t) ==
  dispatch(eatWhitespace([t EXCEPT !.value_ = <<>>, !.pastEnd = FALSE]))

\* ------------------------------------------------------------ the machine
VARIABLES stream_, pos_, value_, token, prev, start, pastEnd, calls

vars == <<stream_, pos_, value_, token, prev, start, pastEnd, calls>>

\* The members as a record, for the operators above.
self == [stream_ |-> stream_, pos_ |-> pos_, value_ |-> value_,
         pastEnd |-> pastEnd]

Init ==
  /\ stream_ \in Inputs
  /\ pos_ = Tokenizer(stream_).pos_
  /\ value_ = Tokenizer(stream_).value_
  /\ token = "None"
  /\ prev = 0
  /\ start = 0
  /\ pastEnd = FALSE
  /\ calls = 0

\* One call of next().  token is the value returned; prev is the cursor on
\* entry, start the cursor after eatWhitespace(), pastEnd whether the call
\* evaluated current() with the cursor at the end of the stream.
Call ==
  /\ calls < MaxCalls
  /\ LET r == next(self)
     IN  /\ token' = r.tok
         /\ pos_' = r.lx.pos_
         /\ value_' = r.lx.value_
         /\ pastEnd' = r.lx.pastEnd
         /\ start' = eatWhitespace(self).pos_
  /\ prev' = pos_
  /\ calls' = calls + 1
  /\ UNCHANGED stream_

Next == Call

Spec == Init /\ [][Next]_vars

\* ------------------------------------------------------------ properties
\* The end of the maximal run of characters of the set S in str from the
\* 0-based index i.
RECURSIVE RunEnd(_, _, _)
RunEnd(str, i, S) == IF At(str, i) \in S THEN RunEnd(str, i + 1, S) ELSE i

\* The characters of str at the 0-based indices i .. j-1.
Sub(str, i, j) == SubSeq(str, i + 1, j)

Returned == calls > 0

TextKinds == {"Number", "Cell", "Identifier", "Operator",
              "LeftParenthesis", "RightParenthesis"}

\* The character the token starts at, and the one after it.
First == At(stream_, start)

Second == At(stream_, start + 1)

\* C1: whenever next() returns Error for an unknown character, the cursor
\* after the call is exactly one position past the offending character.
C1_ErrorAdvancesCursor ==
  (Returned /\ token = "Error") => pos_ = start + 1

\* C2: every next() call that returns a token other than EndOfFile strictly
\* increases the cursor, so EndOfFile is returned after at most
\* length(input) calls.
C2_EveryTokenAdvances ==
  /\ (Returned /\ token # "EndOfFile") => pos_ > prev
  /\ calls > Len(stream_) => token = "EndOfFile"

\* C3: once next() has returned EndOfFile, every later call returns
\* EndOfFile with empty text and leaves the cursor at length(input); on an
\* input of whitespace only (or empty) the first call returns EndOfFile.
EndOfFileStays ==
  token = "EndOfFile" =>
    /\ token' = "EndOfFile"
    /\ value_' = <<>>
    /\ pos_ = Len(stream_)
    /\ pos_' = pos_

WhitespaceOnlyIsEndOfFile ==
  (calls = 0 /\ \A i \in 1..Len(stream_) : isWhitespace(stream_[i])) =>
    /\ token' = "EndOfFile"
    /\ value_' = <<>>
    /\ pos_' = Len(stream_)

C3_EndOfFileIsTerminal ==
  [][EndOfFileStays /\ WhitespaceOnlyIsEndOfFile]_vars

\* Witness of C3: EndOfFile returned again after tokens had been returned.
C3_Witness ==
  /\ token = "EndOfFile"
  /\ calls >= 3
  /\ prev = Len(stream_)
  /\ Len(stream_) > 0

\* The token at start is a digit run followed by '.' and then no digit.
Malformed ==
  /\ isDigit(First)
  /\ At(stream_, RunEnd(stream_, start, Digits)) = "."
  /\ ~isDigit(At(stream_, RunEnd(stream_, start, Digits) + 1))

\* C4: on a digit run followed by '.' and then no digit, next() returns
\* Error (not Number) with the text "Parse error - expected digit but got
\* <char> in number <integer part>".
C4_MalformedNumberIsError ==
  (Returned /\ token # "EndOfFile" /\ Malformed) =>
    /\ token = "Error"
    /\ value_ = EXPECTED_DIGIT
                \o <<At(stream_, RunEnd(stream_, start, Digits) + 1)>>
                \o IN_NUMBER
                \o Sub(stream_, start, RunEnd(stream_, start, Digits))

\* The end of the number that starts with the digit at index i: the digit
\* run, and '.' with the fraction digits when a digit follows the '.'.
NumberEnd(i) ==
  LET j == RunEnd(stream_, i, Digits)
  IN  IF At(stream_, j) = "." /\ isDigit(At(stream_, j + 1))
      THEN RunEnd(stream_, j + 1, Digits)
      ELSE j

\* C5: on '-' followed by a digit, next() returns one Number token whose
\* text is one '-' followed by the digit run (and '.' and the fraction
\* digits when present), and the cursor ends after the last digit consumed.
C5_SignedNumber ==
  (Returned /\ First = "-" /\ isDigit(Second)
     /\ (At(stream_, RunEnd(stream_, start + 1, Digits)) = "."
           => isDigit(At(stream_, RunEnd(stream_, start + 1, Digits) + 1)))) =>
    /\ token = "Number"
    /\ value_ = Sub(stream_, start, NumberEnd(start + 1))
    /\ pos_ = NumberEnd(start + 1)

\* C6: on a letter, next() returns the maximal run of letters and digits
\* from the cursor, as Cell when the first character is in 'A'..'Z' and as
\* Identifier otherwise, and the cursor ends immediately after that run.
C6_IdentifierIsMaximalRun ==
  (Returned /\ isAlpha(First)) =>
    LET e == RunEnd(stream_, start, UpperAlpha \cup LowerAlpha \cup Digits)
    IN  /\ token = (IF isUpperAlpha(First) THEN "Cell" ELSE "Identifier")
        /\ value_ = Sub(stream_, start, e)
        /\ pos_ = e

\* C7: after a call that returns Number, Cell, Identifier, Operator,
\* LeftParenthesis or RightParenthesis the text is the substring of the
\* input from the cursor after whitespace skipping to the cursor after the
\* call; EndOfFile has empty text.
C7_TextIsConsumedSubstring ==
  /\ (Returned /\ token \in TextKinds) => value_ = Sub(stream_, start, pos_)
  /\ (Returned /\ token = "EndOfFile") => value_ = <<>>

\* C8: the cursor stays within 0 .. length(input), never decreases across
\* calls, and no call reads the current character at an index >=
\* length(input).
C8_CursorInRangeNoReadPastEnd ==
  /\ 0 <= pos_ /\ pos_ <= Len(stream_)
  /\ prev <= pos_
  /\ ~pastEnd

\* C9: a fresh lexer on the text of a returned token of kind Number, Cell,
\* Identifier, Operator, LeftParenthesis or RightParenthesis returns, on
\* its first next(), a token of the same kind and the same text.
C9_RoundTrip ==
  (Returned /\ token \in TextKinds) =>
    LET r == next(Tokenizer(value_))
    IN  r.tok = token /\ r.lx.value_ = value_

\* C10: on an operator character other than '-' followed by whitespace, a
\* letter or a digit, next() returns Operator with exactly that character
\* as text and advances the cursor by one; the calls on "3 + 4" return
\* Number("3"), Operator("+"), Number("4"), EndOfFile.
C10_OperatorToken ==
  /\ (Returned /\ isOperator(First) /\ First # "-"
        /\ (isWhitespace(Second) \/ isAlpha(Second) \/ isDigit(Second))) =>
       (token = "Operator" /\ value_ = <<First>> /\ pos_ = start + 1)
  /\ (stream_ = Sample /\ calls = 1) => (token = "Number" /\ value_ = <<"3">>)
  /\ (stream_ = Sample /\ calls = 2) => (token = "Operator" /\ value_ = <<"+">>)
  /\ (stream_ = Sample /\ calls = 3) => (token = "Number" /\ value_ = <<"4">>)
  /\ (stream_ = Sample /\ calls >= 4) => (token = "EndOfFile" /\ value_ = <<>>)

\* Witness of C10: the second call on "3 + 4" has returned the operator.
C10_Witness ==
  /\ stream_ = Sample
  /\ calls = 2
  /\ token = "Operator"
  /\ pos_ = 3

====
